---- MODULE Spec2Model ----
(***************************************************************************)
(* Model of pysar/objects/pysarobj.py: the ifgramStack, timeseries and     *)
(* geometry objects over an HDF5 container.                                *)
(*                                                                         *)
(* Strings are sequences of one-character strings ("2","0",...,"_","-");   *)
(* a dataset base name is one token ("unwrapPhase").  The container is the *)
(* persisted state: /date (m x 2 date strings), /dropIfgram (m booleans),  *)
(* /bperp (m values), the 3D cubes of size (m, Length, Width) and the      *)
(* timeseries /date and /bperp.  self_dropIfgram is the copy of            *)
(* /dropIfgram that open() keeps on the ifgramStack object.                *)
(* A cube is modelled by the addresses of its cells, so that the result of *)
(* a read is the list of leading-axis positions, the row range and the     *)
(* column range that were fetched, and the shape of the returned array.    *)
(***************************************************************************)
EXTENDS Integers, Sequences, FiniteSets, TLC

VARIABLES date, dropIfgram, bperp, tsDate, tsRefDate, tsBperp, geoDate, dropList,
          self_dropIfgram, op, arg, ret

vars == <<date, dropIfgram, bperp, tsDate, tsRefDate, tsBperp, geoDate, dropList,
          self_dropIfgram, op, arg, ret>>

(***************************************************************************)
(* Bounds of the model.                                                    *)
(***************************************************************************)
MaxIfgram == 3      \* pairs stored in /date
MaxIfgramInv == 2   \* pairs stored in /date when the network is inverted
MaxDrop == 2        \* keys in date12List_to_drop
Width == 2          \* columns of every cube
Length == 2         \* rows of every cube

(***************************************************************************)
(* Date strings in YYYYMMDD format.                                        *)
(***************************************************************************)
DigitVal == [c \in {"0","1","2","3","4","5","6","7","8","9"} |->
               CASE c = "0" -> 0 [] c = "1" -> 1 [] c = "2" -> 2 [] c = "3" -> 3
                 [] c = "4" -> 4 [] c = "5" -> 5 [] c = "6" -> 6 [] c = "7" -> 7
                 [] c = "8" -> 8 [] c = "9" -> 9]

\* int() of a string of digits
RECURSIVE Num(_)
Num(s) == IF s = <<>> THEN 0
          ELSE 10 * Num(SubSeq(s, 1, Len(s) - 1)) + DigitVal[s[Len(s)]]

IsLeap(y) == (y % 4 = 0) /\ ((y % 100 # 0) \/ (y % 400 = 0))

DaysInMonth(y, m) == IF m = 2 THEN (IF IsLeap(y) THEN 29 ELSE 28)
                     ELSE IF m \in {4, 6, 9, 11} THEN 30 ELSE 31

RECURSIVE DaysBeforeMonth(_, _)
DaysBeforeMonth(y, m) == IF m = 1 THEN 0
                         ELSE DaysBeforeMonth(y, m - 1) + DaysInMonth(y, m - 1)

\* dt(*time.strptime(s, "%Y%m%d")[0:5]) as a proleptic Gregorian day number
ToOrdinal(s) ==
  LET y == Num(SubSeq(s, 1, 4))
      m == Num(SubSeq(s, 5, 6))
      d == Num(SubSeq(s, 7, 8))
  IN  (y - 1) * 365 + ((y - 1) \div 4) - ((y - 1) \div 100) + ((y - 1) \div 400)
      + DaysBeforeMonth(y, m) + d

D1 == <<"2","0","2","0","0","1","0","1">>
D2 == <<"2","0","2","0","0","1","1","3">>
D3 == <<"2","0","2","0","0","1","2","5">>
D4 == <<"2","0","2","0","0","3","0","1">>

DateKeys == {D1, D2, D3, D4}

\* the datetime of every date string that occurs
Times == [s \in DateKeys |-> ToOrdinal(s)]

\* (t2 - t1).days
Days(s1, s2) == Times[s2] - Times[s1]

(***************************************************************************)
(* Python string and list primitives.                                      *)
(***************************************************************************)
\* code point order of the characters that occur in a date string
RECURSIVE StrLess(_, _)
StrLess(s, t) ==
  IF t = <<>> THEN FALSE
  ELSE IF s = <<>> THEN TRUE
  ELSE IF s[1] = t[1] THEN StrLess(Tail(s), Tail(t))
  ELSE DigitVal[s[1]] < DigitVal[t[1]]

\* sorted(list(set(...)))
RECURSIVE Sorted(_)
Sorted(S) ==
  IF S = {} THEN <<>>
  ELSE LET lo == CHOOSE x \in S : \A y \in S \ {x} : StrLess(x, y)
       IN  <<lo>> \o Sorted(S \ {lo})

\* '{}_{}'.format(i, j)
Format12(i, j) == i \o <<"_">> \o j

\* s.find(sep) from position k on, 1-based; 0 when sep does not occur
RECURSIVE Find(_, _, _)
Find(s, sep, k) ==
  IF k > Len(s) THEN 0 ELSE IF s[k] = sep THEN k ELSE Find(s, sep, k + 1)

\* s.split(sep): the list of the pieces between the separators
RECURSIVE Split(_, _)
Split(s, sep) ==
  LET k == Find(s, sep, 1)
  IN  IF k = 0 THEN <<s>>
      ELSE <<SubSeq(s, 1, k - 1)>> \o Split(SubSeq(s, k + 1, Len(s)), sep)

Range(s) == {s[k] : k \in 1..Len(s)}

\* a list or array held in memory: the finite sequence with the entries of f
List(f) == <<>> \o f

\* list.index(x): 0-based position of the first occurrence; -1 stands for ValueError
Index(list, x) ==
  IF x \in Range(list)
  THEN (CHOOSE k \in 1..Len(list) : list[k] = x /\ \A h \in 1..(k - 1) : list[h] # x) - 1
  ELSE -1

\* np.where(flag)[0]: the 0-based positions that are True, increasing
RECURSIVE Where(_)
Where(flag) ==
  IF flag = <<>> THEN <<>>
  ELSE Where(SubSeq(flag, 1, Len(flag) - 1))
       \o (IF flag[Len(flag)] THEN <<Len(flag) - 1>> ELSE <<>>)

\* mutant of MaskSelect: the first sum(flag) entries instead of the flagged ones
MaskSelectFirst(a, flag) == List([k \in 1..Len(Where(flag)) |-> a[k]])

\* a[flag]: boolean-mask selection along the leading axis
MaskSelect(a, flag) ==
  LET idx == Where(flag)
  IN  List([k \in 1..Len(idx) |-> a[idx[k] + 1]])

(***************************************************************************)
(* ifgramStack: functions considering the dropIfgram value.                *)
(***************************************************************************)
get_date12_list(flag) ==
  LET dates == IF flag THEN MaskSelect(date, dropIfgram) ELSE date
  IN  List([k \in 1..Len(dates) |-> Format12(dates[k][1], dates[k][2])])

get_date_list(flag) ==
  LET dates == IF flag THEN MaskSelect(date, dropIfgram) ELSE date
  IN  Sorted({dates[k][1] : k \in 1..Len(dates)} \cup {dates[k][2] : k \in 1..Len(dates)})

\* mutant of KeepFlags: drops accumulate on top of the mask already stored
KeepFlagsAnd(date12ListAll, toDrop) ==
  List([k \in 1..Len(date12ListAll) |-> dropIfgram[k] /\ date12ListAll[k] \notin toDrop])

\* mutant of KeepFlags: one flag for every pair that is kept, none for the others
KeepFlagsOfKept(date12ListAll, toDrop) ==
  List([k \in 1..Cardinality({j \in 1..Len(date12ListAll) : date12ListAll[j] \notin toDrop})
          |-> TRUE])

\* np.array([i not in date12List_to_drop for i in date12ListAll])
KeepFlags(date12ListAll, toDrop) ==
  List([k \in 1..Len(date12ListAll) |-> date12ListAll[k] \notin toDrop])

(***************************************************************************)
(* Inputs and initial states.                                              *)
(***************************************************************************)
\* pairs over a set of dates, master date not after slave date
PairSet(dates) == {p \in dates \X dates : ~StrLess(p[2], p[1])}

\* pairs over a set of dates, master date before slave date
StrictPairSet(dates) == {p \in dates \X dates : StrLess(p[1], p[2])}

AllKeys == {Format12(p[1], p[2]) : p \in PairSet(DateKeys)}

StoredKeys == {Format12(date[k][1], date[k][2]) : k \in 1..Len(date)}

\* the keys of the stored pairs and one key that no stored pair has
KeyInputs ==
  StoredKeys \cup (IF AllKeys \subseteq StoredKeys THEN {}
                   ELSE {CHOOSE x \in AllKeys : x \notin StoredKeys})

\* the non-empty sequences over S of length at most n
SeqsUpTo(S, n) == UNION {[1..k -> S] : k \in 1..n}

NoDrop == [isNone |-> TRUE, keys |-> {}]

NoDate == [isNone |-> TRUE, key |-> <<>>]

SomeDate(d) == [isNone |-> FALSE, key |-> d]

\* the attribute self.dropIfgram before open() has run
NoCache == [isNone |-> TRUE, value |-> <<>>]

\* perpendicular baseline of every acquisition, in meter
DateBperp == [d \in DateKeys |->
                CASE d = D1 -> 0 [] d = D2 -> 1 [] d = D3 -> 2 [] d = D4 -> 5]

\* /bperp of a pair: the difference of the baselines of its two acquisitions
PairBperp(dates) ==
  List([k \in 1..Len(dates) |-> DateBperp[dates[k][2]] - DateBperp[dates[k][1]]])

\* an ifgramStack file with one to n distinct pairs of the given set and any
\* keep-mask
InitStack(pairs, n) ==
  /\ date \in SeqsUpTo(pairs, n)
  /\ \A j, k \in 1..Len(date) : j # k => date[j] # date[k]
  /\ dropIfgram \in [1..Len(date) -> BOOLEAN]
  /\ dropList = NoDrop
  /\ self_dropIfgram = NoCache
  /\ op = "idle"
  /\ arg = <<>>
  /\ ret = <<>>

\* a timeseries file and a geometry file with /date in acquisition order
InitFiles ==
  /\ tsDate = <<D1, D2>>
  /\ tsRefDate = NoDate
  /\ tsBperp = List([k \in 1..Len(tsDate) |-> DateBperp[tsDate[k]]])
  /\ geoDate = <<D1, D2>>

\* /bperp of the ifgramStack file
InitBperp == bperp = PairBperp(date)

\* pairs over every date, any keep-mask
Init == InitStack(PairSet(DateKeys), MaxIfgramInv) /\ InitBperp /\ InitFiles

(***************************************************************************)
(* Calls are synchronous: a call is made when no call is in progress       *)
(* (op = "idle"), runs to completion and leaves its result in ret; Return  *)
(* hands the result to the caller, who may then make the next call.        *)
(***************************************************************************)
Return ==
  /\ op # "idle"
  /\ op' = "idle"
  /\ arg' = <<>>
  /\ ret' = <<>>
  /\ UNCHANGED <<date, dropIfgram, bperp, tsDate, tsRefDate, tsBperp, geoDate, dropList,
                  self_dropIfgram>>

(***************************************************************************)
(* Actions of the drop-mask filter.                                        *)
(***************************************************************************)
\* date12List_to_drop: None, or a collection of pair keys
DropInputs ==
  {NoDrop}
  \cup {[isNone |-> FALSE, keys |-> S] : S \in {T \in SUBSET KeyInputs : Cardinality(T) <= MaxDrop}}

UpdateDropIfgram ==
  \E toDrop \in DropInputs :
    /\ op = "idle"
    /\ op' = "update_drop_ifgram"
    \* again: history, the same list was the one persisted last
    /\ arg' = [date12List_to_drop |-> toDrop, again |-> (dropList = toDrop)]
    /\ IF toDrop.isNone
       THEN UNCHANGED <<dropIfgram, dropList>>
       ELSE /\ dropIfgram' = KeepFlags(get_date12_list(FALSE), toDrop.keys)
            /\ dropList' = toDrop
    /\ ret' = [status |-> "ok"]
    /\ UNCHANGED <<date, bperp, tsDate, tsRefDate, tsBperp, geoDate, self_dropIfgram>>

GetDate12List ==
  \E flag \in BOOLEAN :
    /\ op = "idle"
    /\ op' = "get_date12_list"
    /\ arg' = [dropIfgram |-> flag]
    /\ ret' = [status |-> "ok", value |-> get_date12_list(flag)]
    /\ UNCHANGED <<date, dropIfgram, bperp, tsDate, tsRefDate, tsBperp, geoDate, dropList,
                  self_dropIfgram>>

GetDateList ==
  \E flag \in BOOLEAN :
    /\ op = "idle"
    /\ op' = "get_date_list"
    /\ arg' = [dropIfgram |-> flag]
    /\ ret' = [status |-> "ok", value |-> get_date_list(flag)]
    /\ UNCHANGED <<date, dropIfgram, bperp, tsDate, tsRefDate, tsBperp, geoDate, dropList,
                  self_dropIfgram>>

NextDrop == UpdateDropIfgram \/ GetDate12List \/ GetDateList \/ Return

InitDrop == InitStack(PairSet({D1, D2, D3}), MaxIfgram) /\ InitBperp /\ InitFiles

SpecDrop == InitDrop /\ [][NextDrop]_vars

(***************************************************************************)
(* Bounded-region reads.  A slice a:b of an axis of extent n is resolved   *)
(* as slice.indices(n) does; the container refuses a reverse-order         *)
(* selection or reads it as empty, depending on its version.               *)
(***************************************************************************)
Clamp(v, n) == IF v < 0 THEN (IF v + n < 0 THEN 0 ELSE v + n)
               ELSE IF v > n THEN n ELSE v

\* slice(start, stop).indices(n)
SliceIndices(start, stop, n) == <<Clamp(start, n), Clamp(stop, n)>>

Extent(r) == IF r[2] > r[1] THEN r[2] - r[1] ELSE 0

IsNotOne(n) == n # 1

\* np.squeeze(data): every axis of extent one is removed
Squeeze(shape) == SelectSeq(shape, IsNotOne)

NoBox == [isNone |-> TRUE, xy |-> <<0, 0, 0, 0>>]

SomeBox(x0, y0, x1, y1) == [isNone |-> FALSE, xy |-> <<x0, y0, x1, y1>>]

\* box = (0, 0, self.width, self.length) when box is None
BoxOrFull(box) == IF box.isNone THEN <<0, 0, Width, Length>> ELSE box.xy

\* box[1]:box[3] on the row axis
RowRange(b) == SliceIndices(b[2], b[4], Length)

\* box[0]:box[2] on the column axis
ColRange(b) == SliceIndices(b[1], b[3], Width)

\* dset[lead, box[1]:box[3], box[0]:box[2]] where lead is the list of
\* leading-axis positions; byIndex: lead is one integer index, whose axis
\* the selection drops
Selection(lead, byIndex, b, strict) ==
  LET r == RowRange(b)
      c == ColRange(b)
  IN  IF strict /\ (r[2] < r[1] \/ c[2] < c[1])
      THEN [status |-> "ValueError"]
      ELSE [status |-> "ok", pos |-> lead, rows |-> r, cols |-> c,
            shape |-> (IF byIndex THEN <<>> ELSE <<Len(lead)>>)
                      \o <<Extent(r), Extent(c)>>]

Squeezed(data) ==
  IF data.status = "ok" THEN [data EXCEPT !.shape = Squeeze(@)] ELSE data

\* dset[:, ...]: every position of an axis of extent n
FullAxis(n) == List([k \in 1..n |-> k - 1])

\* 3D datasets of the ifgramStack file
IfgramDatasets == {<<"unwrapPhase">>, <<"coherence">>}

BoxInputs ==
  {NoBox,
   SomeBox(0, 0, 1, Length), SomeBox(0, 0, Width, 1),
   SomeBox(0, 0, Width + 1, Length), SomeBox(0, 0, Width, Length + 1),
   SomeBox(-1, 0, Width, Length)}

\* 'base' and 'base-qualifier'
Qualified(base, q) == base \o <<"-">> \o q

IfgramNameInputs ==
  IfgramDatasets \cup {<<"iono">>}
  \cup {Qualified(b, q) : b \in IfgramDatasets, q \in KeyInputs}

\* mutant of IfgramLead: the filtered read takes the first sum(mask) positions
IfgramLeadFirst(name, flag) ==
  IF Len(name) = 1
  THEN (IF flag THEN FullAxis(Len(Where(dropIfgram))) ELSE FullAxis(Len(date)))
  ELSE <<Index(get_date12_list(flag), name[2])>>

\* the leading-axis selector of ifgramStack.read for the split name
IfgramLead(name, flag) ==
  IF Len(name) = 1
  THEN (IF flag THEN Where(dropIfgram) ELSE FullAxis(Len(date)))
  ELSE <<Index(get_date12_list(flag), name[2])>>

\* the result of ifgramStack.read(datasetName, box, dropIfgram)
ifgram_read(datasetName, box, flag, strict) ==
  LET name == Split(datasetName, "-")
      b    == BoxOrFull(box)
  IN  IF name[1] \notin IfgramDatasets
         THEN [status |-> "KeyError"]
      ELSE IF Len(name) = 1
         THEN Selection(IfgramLead(name, flag), FALSE, b, strict)
      ELSE IF Index(get_date12_list(flag), name[2]) = -1
         THEN [status |-> "ValueError"]
      ELSE Squeezed(Selection(IfgramLead(name, flag), TRUE, b, strict))

IfgramRead ==
  \E datasetName \in IfgramNameInputs, box \in BoxInputs,
     flag \in BOOLEAN, strict \in BOOLEAN :
    /\ op = "idle"
    /\ op' = "ifgramStack.read"
    /\ arg' = [datasetName |-> datasetName, box |-> box, dropIfgram |-> flag]
    /\ ret' = ifgram_read(datasetName, box, flag, strict)
    /\ UNCHANGED <<date, dropIfgram, bperp, tsDate, tsRefDate, tsBperp, geoDate, dropList,
                  self_dropIfgram>>

(***************************************************************************)
(* timeseries.read and geometry.read.                                      *)
(***************************************************************************)
\* the dates of a stored list and one date that is not in it
DateInputs(list) ==
  Range(list) \cup (IF DateKeys \subseteq Range(list) THEN {}
                    ELSE {CHOOSE d \in DateKeys : d \notin Range(list)})

\* datasetName of timeseries.read: None, one date, or a list of dates
TsNameInputs ==
  {[kind |-> "none", names |-> <<>>]}
  \cup {[kind |-> "str", names |-> <<d>>] : d \in DateInputs(tsDate)}
  \cup {[kind |-> "list", names |-> tsDate]}

\* timeseries.get_metadata: REF_DATE defaults to the first stored date
TsRefIndex ==
  Index(tsDate, IF tsRefDate.isNone THEN tsDate[1] ELSE tsRefDate.key)

\* dateFlag of timeseries.read
DateFlag(datasetName) ==
  List([k \in 1..Len(tsDate) |->
          datasetName.kind = "none" \/ tsDate[k] \in Range(datasetName.names)])

\* the result of timeseries.read(datasetName, box)
timeseries_read(datasetName, box, strict) ==
  IF tsDate = <<>>
     THEN [status |-> "IndexError"]
  ELSE IF TsRefIndex = -1
     THEN [status |-> "ValueError"]
  ELSE IF \E d \in Range(datasetName.names) : Index(tsDate, d) = -1
     THEN [status |-> "ValueError"]
  ELSE Squeezed(Selection(Where(DateFlag(datasetName)), FALSE, BoxOrFull(box), strict))

TimeseriesRead ==
  \E datasetName \in TsNameInputs, box \in BoxInputs, strict \in BOOLEAN :
    /\ op = "idle"
    /\ op' = "timeseries.read"
    /\ arg' = [datasetName |-> datasetName, box |-> box]
    /\ ret' = timeseries_read(datasetName, box, strict)
    /\ UNCHANGED <<date, dropIfgram, bperp, tsDate, tsRefDate, tsBperp, geoDate, dropList,
                  self_dropIfgram>>

\* np.int16 of a number of days
Int16(x) == ((x + 32768) % 65536) - 32768

\* the result of timeseries.open(): refIndex, tbase, pbase and dateList
timeseries_open ==
  IF tsDate = <<>>
     THEN [status |-> "IndexError"]
  ELSE IF TsRefIndex = -1
     THEN [status |-> "ValueError"]
  ELSE [status |-> "ok",
        refIndex |-> TsRefIndex,
        dateList |-> tsDate,
        tbase |-> List([k \in 1..Len(tsDate) |->
                          Int16(Days(tsDate[TsRefIndex + 1], tsDate[k]))]),
        pbase |-> List([k \in 1..Len(tsDate) |-> tsBperp[k] - tsBperp[TsRefIndex + 1]])]

TimeseriesOpen ==
  /\ op = "idle"
  /\ op' = "timeseries.open"
  /\ arg' = <<>>
  /\ ret' = timeseries_open
  /\ UNCHANGED <<date, dropIfgram, bperp, tsDate, tsRefDate, tsBperp, geoDate, dropList,
                self_dropIfgram>>

\* datasets of the geometry file: 2D height and 3D bperp
GeometryDatasets == {<<"height">>, <<"bperp">>}

GeometryNameInputs ==
  GeometryDatasets \cup {<<"waterMask">>}
  \cup {Qualified(<<"bperp">>, d) : d \in DateInputs(geoDate)}

\* the result of geometry.read(datasetName, box)
geometry_read(datasetName, box, strict) ==
  LET name == Split(datasetName, "-")
      b    == BoxOrFull(box)
  IN  IF name[1] \notin GeometryDatasets
         THEN [status |-> "KeyError"]
      ELSE IF name[1] = <<"height">>
         \* a 2D dataset: dset[box[1]:box[3], box[0]:box[2]]
         THEN Selection(<<>>, TRUE, b, strict)
      ELSE IF Len(name) = 1
         THEN Selection(FullAxis(Len(geoDate)), FALSE, b, strict)
      ELSE IF Index(geoDate, name[2]) = -1
         THEN [status |-> "ValueError"]
      ELSE Squeezed(Selection(<<Index(geoDate, name[2])>>, TRUE, b, strict))

GeometryRead ==
  \E datasetName \in GeometryNameInputs, box \in BoxInputs, strict \in BOOLEAN :
    /\ op = "idle"
    /\ op' = "geometry.read"
    /\ arg' = [datasetName |-> datasetName, box |-> box]
    /\ ret' = geometry_read(datasetName, box, strict)
    /\ UNCHANGED <<date, dropIfgram, bperp, tsDate, tsRefDate, tsBperp, geoDate, dropList,
                  self_dropIfgram>>

NextRead == IfgramRead \/ TimeseriesRead \/ GeometryRead \/ Return

InitRead == InitStack(StrictPairSet({D1, D2, D3}), MaxIfgram) /\ InitBperp /\ InitFiles

SpecRead == InitRead /\ [][NextRead]_vars

(***************************************************************************)
(* ifgramStack.open and the reductions that use its copy of /dropIfgram.   *)
(***************************************************************************)
\* mutant of open_dropIfgram: the copy of an earlier open() is kept
open_keep(cached) ==
  IF cached.isNone THEN [isNone |-> FALSE, value |-> dropIfgram] ELSE cached

\* self.dropIfgram = f['dropIfgram'][:]
open_dropIfgram(cached) == [isNone |-> FALSE, value |-> dropIfgram]

Open ==
  /\ op = "idle"
  /\ op' = "ifgramStack.open"
  /\ arg' = <<>>
  /\ self_dropIfgram' = open_dropIfgram(self_dropIfgram)
  /\ ret' = [status |-> "ok"]
  /\ UNCHANGED <<date, dropIfgram, bperp, tsDate, tsRefDate, tsBperp, geoDate, dropList>>

NoName == [isNone |-> TRUE, name |-> <<>>]

SomeName(n) == [isNone |-> FALSE, name |-> n]

\* datasetName of nonzero_mask and temporal_average: None or a dataset name
ReduceNameInputs == {NoName} \cup {SomeName(n) : n \in IfgramDatasets \cup {<<"iono">>}}

\* np.sum of a boolean array
CountTrue(flag) == Len(Where(flag))

\* dropIfgramFlag: the copy kept by open(), or np.ones
DropIfgramFlag(cached, flag) ==
  IF flag THEN cached.value ELSE List([k \in 1..Len(date) |-> TRUE])

\* the result of nonzero_mask(datasetName, dropIfgram), self.dropIfgram being
\* the copy that its call of open() has made
nonzero_mask(datasetName, flag, cached) ==
  LET name == IF datasetName.isNone THEN <<"unwrapPhase">> ELSE datasetName.name
  IN  IF name \notin IfgramDatasets
         THEN [status |-> "KeyError"]
      ELSE [status |-> "ok", idx2read |-> Where(DropIfgramFlag(cached, flag))]

NonzeroMask ==
  \E datasetName \in ReduceNameInputs, flag \in BOOLEAN :
    /\ op = "idle"
    /\ op' = "nonzero_mask"
    \* stale: history, the copy of an earlier open() differed from /dropIfgram
    /\ arg' = [datasetName |-> datasetName, dropIfgram |-> flag,
               stale |-> (~self_dropIfgram.isNone /\ self_dropIfgram.value # dropIfgram)]
    /\ self_dropIfgram' = open_dropIfgram(self_dropIfgram)
    /\ ret' = nonzero_mask(datasetName, flag, self_dropIfgram')
    /\ UNCHANGED <<date, dropIfgram, bperp, tsDate, tsRefDate, tsBperp, geoDate, dropList>>

\* dmean /= np.sum(self.dropIfgram)
AverageDivisor(cached, flag) == CountTrue(cached.value)

\* the result of temporal_average(datasetName, dropIfgram): the positions
\* summed into dmean, whether each slice was scaled to a range rate, and the
\* divisor
temporal_average(datasetName, flag, cached) ==
  LET name == IF datasetName.isNone THEN <<"unwrapPhase">> ELSE datasetName.name
  IN  IF name \notin IfgramDatasets
         THEN [status |-> "KeyError"]
      ELSE [status |-> "ok",
            idx2read |-> Where(DropIfgramFlag(cached, flag)),
            scaled |-> (name = <<"unwrapPhase">>),
            divisor |-> AverageDivisor(cached, flag)]

TemporalAverage ==
  \E datasetName \in ReduceNameInputs, flag \in BOOLEAN :
    /\ op = "idle"
    /\ op' = "temporal_average"
    /\ arg' = [datasetName |-> datasetName, dropIfgram |-> flag,
               stale |-> (~self_dropIfgram.isNone /\ self_dropIfgram.value # dropIfgram)]
    /\ self_dropIfgram' = open_dropIfgram(self_dropIfgram)
    /\ ret' = temporal_average(datasetName, flag, self_dropIfgram')
    /\ UNCHANGED <<date, dropIfgram, bperp, tsDate, tsRefDate, tsBperp, geoDate, dropList>>

(***************************************************************************)
(* Network inversion: ifgramStack.get_design_matrix.                       *)
(***************************************************************************)
MasterOf(date12) == Split(date12, "_")[1]

SlaveOf(date12) == Split(date12, "_")[2]

\* mutant of DesignDateList: the dates of every stored pair, dropped or not
DesignDateListAll(date12List) ==
  Sorted({date[k][1] : k \in 1..Len(date)} \cup {date[k][2] : k \in 1..Len(date)})

\* dateList = sorted(list(set(mDates + sDates)))
DesignDateList(date12List) ==
  Sorted({MasterOf(date12List[k]) : k \in 1..Len(date12List)}
         \cup {SlaveOf(date12List[k]) : k \in 1..Len(date12List)})

\* mutant of Tbase: the days are counted from the last date
TbaseFromLast(dateList) ==
  List([k \in 1..Len(dateList) |-> Days(dateList[Len(dateList)], dateList[k])])

\* tbase = np.array([(i - dates[0]).days for i in dates])
Tbase(dateList) == List([k \in 1..Len(dateList) |-> Days(dateList[1], dateList[k])])

\* A[i, m_idx] = -1 and then A[i, s_idx] = 1 on a row of zeros
RowA(m_idx, s_idx, n) ==
  List([k \in 1..n |-> IF k - 1 = s_idx THEN 1 ELSE IF k - 1 = m_idx THEN -1 ELSE 0])

\* mutant of RowB: the increments are taken one column late
RowBLate(m_idx, s_idx, tbase) ==
  List([k \in 1..Len(tbase) |->
          IF m_idx < k - 1 /\ k - 1 < s_idx THEN tbase[k + 1] - tbase[k] ELSE 0])

\* mutant of RowB: the whole time delta of the pair is put in the column of a
RowBWhole(m_idx, s_idx, tbase) ==
  List([k \in 1..Len(tbase) |->
          IF k - 1 = m_idx /\ m_idx < s_idx THEN tbase[s_idx + 1] - tbase[m_idx + 1] ELSE 0])

\* B[i, m_idx:s_idx] = tbase[m_idx+1:s_idx+1] - tbase[m_idx:s_idx]
RowB(m_idx, s_idx, tbase) ==
  List([k \in 1..Len(tbase) |->
          IF m_idx <= k - 1 /\ k - 1 < s_idx THEN tbase[k + 1] - tbase[k] ELSE 0])

\* m_idx, s_idx = [dateList.index(j) for j in date12List[i].split('_')]
PairIndex(date12List, dateList) ==
  List([i \in 1..Len(date12List) |->
          LET j == Split(date12List[i], "_")
          IN  <<Index(dateList, j[1]), Index(dateList, j[2])>>])

\* A before the reference column is removed
DesignA(idx, numDate) ==
  List([i \in 1..Len(idx) |-> RowA(idx[i][1], idx[i][2], numDate)])

\* B before the last column is removed
DesignB(idx, tbase) ==
  List([i \in 1..Len(idx) |-> RowB(idx[i][1], idx[i][2], tbase)])

\* mutant of RemoveColumn: the first column is removed whatever refIndex is
RemoveFirstColumn(M, refIndex) == List([i \in 1..Len(M) |-> Tail(M[i])])

\* np.hstack((A[:, 0:refIndex], A[:, (refIndex+1):]))
RemoveColumn(M, refIndex) ==
  List([i \in 1..Len(M) |->
          SubSeq(M[i], 1, refIndex) \o SubSeq(M[i], refIndex + 2, Len(M[i]))])

\* mutant of RemoveLastColumn: the first column is removed
RemoveLeadingColumn(M) == List([i \in 1..Len(M) |-> Tail(M[i])])

\* B[:, :-1]
RemoveLastColumn(M) == List([i \in 1..Len(M) |-> SubSeq(M[i], 1, Len(M[i]) - 1)])

\* refDate of get_design_matrix: None, or a date string
RefDateInputs == {NoDate} \cup {SomeDate(d) : d \in DateKeys}

\* the result of get_design_matrix(refDate, dropIfgram)
get_design_matrix(refDate, flag) ==
  LET date12List == get_date12_list(flag)
      dateList   == DesignDateList(date12List)
      idx        == PairIndex(date12List, dateList)
      A          == DesignA(idx, Len(dateList))
      B          == DesignB(idx, Tbase(dateList))
      ref        == IF refDate.isNone THEN dateList[1] ELSE refDate.key
  IN  IF refDate.isNone /\ dateList = <<>>
         THEN [status |-> "IndexError"]
      ELSE IF Index(dateList, ref) = -1
         THEN [status |-> "ValueError"]
      ELSE [status |-> "ok",
            A |-> RemoveColumn(A, Index(dateList, ref)),
            B |-> RemoveLastColumn(B),
            \* the local arrays A and B before the removal, and tbase
            A_full |-> A, B_full |-> B, tbase |-> Tbase(dateList)]

GetDesignMatrix ==
  \E refDate \in RefDateInputs, flag \in BOOLEAN :
    /\ op = "idle"
    /\ op' = "get_design_matrix"
    /\ arg' = [refDate |-> refDate, dropIfgram |-> flag]
    /\ ret' = get_design_matrix(refDate, flag)
    /\ UNCHANGED <<date, dropIfgram, bperp, tsDate, tsRefDate, tsBperp, geoDate, dropList,
                  self_dropIfgram>>

(***************************************************************************)
(* ifgramStack.get_perp_baseline_timeseries.  Reals are kept exact: a      *)
(* vector of reals is a list of integer numerators over one denominator.   *)
(***************************************************************************)
\* np.diff(tbase)
Diff(tbase) == List([k \in 1..(Len(tbase) - 1) |-> tbase[k + 1] - tbase[k]])

\* number of columns of an array with at least one row
NumCols(M) == Len(M[1])

RECURSIVE Dot(_, _)
\* np.dot of two vectors
Dot(u, v) == IF u = <<>> THEN 0 ELSE u[1] * v[1] + Dot(Tail(u), Tail(v))

\* column k of an array
Column(M, k) == List([i \in 1..Len(M) |-> M[i][k]])

\* B.T . B
Gram(M) ==
  List([a \in 1..NumCols(M) |->
          List([b \in 1..NumCols(M) |-> Dot(Column(M, a), Column(M, b))])])

\* B.T . y
TransposeDot(M, y) == List([a \in 1..NumCols(M) |-> Dot(Column(M, a), y)])

\* the array without row 1 and column j
Minor(M, j) ==
  List([r \in 1..(Len(M) - 1) |->
          SubSeq(M[r + 1], 1, j - 1) \o SubSeq(M[r + 1], j + 1, Len(M[r + 1]))])

RECURSIVE Det(_)
RECURSIVE DetExpand(_, _)
\* the determinant, expanded along the first row from column j on
DetExpand(M, j) ==
  IF j > Len(M) THEN 0
  ELSE (IF j % 2 = 1 THEN 1 ELSE -1) * M[1][j] * Det(Minor(M, j)) + DetExpand(M, j + 1)

Det(M) == IF M = <<>> THEN 1 ELSE DetExpand(M, 1)

\* the array with column k replaced by the vector v
ReplaceColumn(M, k, v) ==
  List([r \in 1..Len(M) |-> List([c \in 1..Len(M[r]) |-> IF c = k THEN v[r] ELSE M[r][c]])])

\* np.dot(np.linalg.pinv(B), y) for B of full column rank: the least-squares
\* solution (B.T B)^-1 B.T y, as numerators over the denominator det(B.T B)
PinvDot(M, y) ==
  LET G == Gram(M)
      v == TransposeDot(M, y)
  IN  [den |-> Det(G),
       num |-> List([k \in 1..NumCols(M) |-> Det(ReplaceColumn(G, k, v))])]

RECURSIVE Cumsum(_)
\* np.cumsum
Cumsum(v) ==
  IF v = <<>> THEN <<>>
  ELSE LET head == Cumsum(SubSeq(v, 1, Len(v) - 1))
       IN  head \o <<(IF head = <<>> THEN 0 ELSE head[Len(head)]) + v[Len(v)]>>

\* mutant of RateTimesDiff: the rates are not multiplied by the increments
RateOnly(rate, tbaseDiff) == rate

\* pbaseRate * tbaseDiff
RateTimesDiff(rate, tbaseDiff) ==
  List([k \in 1..Len(rate) |-> rate[k] * tbaseDiff[k]])

\* the result of get_perp_baseline_timeseries(dropIfgram)
get_perp_baseline_timeseries(flag) ==
  LET date12List  == get_date12_list(flag)
      dateList    == DesignDateList(date12List)
      tbase       == Tbase(dateList)
      tbaseDiff   == Diff(tbase)
      design      == get_design_matrix(NoDate, flag)
      pbaseIfgram == IF flag THEN MaskSelect(bperp, dropIfgram) ELSE bperp
  IN  IF design.status # "ok"
         THEN [status |-> design.status]
      ELSE IF NumCols(design.B) = 0
         \* one epoch: B has no column, the series is the leading 0 alone
         THEN [status |-> "ok", fullRank |-> TRUE, tbase |-> tbase,
               den |-> 1, num |-> <<0>>]
      ELSE IF Det(Gram(design.B)) = 0
         \* B.T B is singular: the minimum-norm solution, whose value is left open
         THEN [status |-> "ok", fullRank |-> FALSE, tbase |-> tbase]
      ELSE LET pbaseRate == PinvDot(design.B, pbaseIfgram)
           IN  [status |-> "ok", fullRank |-> TRUE, tbase |-> tbase,
                den |-> pbaseRate.den,
                num |-> <<0>> \o Cumsum(RateTimesDiff(pbaseRate.num, tbaseDiff))]

GetPerpBaselineTimeseries ==
  \E flag \in BOOLEAN :
    /\ op = "idle"
    /\ op' = "get_perp_baseline_timeseries"
    /\ arg' = [dropIfgram |-> flag]
    /\ ret' = get_perp_baseline_timeseries(flag)
    /\ UNCHANGED <<date, dropIfgram, bperp, tsDate, tsRefDate, tsBperp, geoDate, dropList,
                  self_dropIfgram>>

\* observed pair values of the ifgramStack file
BperpValues == {1, 2}

\* pairs over three dates with any values in /bperp
InitPerp ==
  /\ InitStack(StrictPairSet({D1, D2, D3}), MaxIfgram)
  /\ bperp \in [1..Len(date) -> BperpValues]
  /\ InitFiles

NextPerp == GetDesignMatrix \/ GetPerpBaselineTimeseries \/ Return

SpecPerp == InitPerp /\ [][NextPerp]_vars

\* timeseries files with one to three dates in acquisition order and REF_DATE
\* absent or any date
InitOffsets ==
  /\ InitStack(PairSet({D1, D2, D3}), MaxIfgramInv)
  /\ InitBperp
  /\ tsDate \in {Sorted(S) : S \in (SUBSET {D1, D2, D3}) \ {{}}}
  /\ tsRefDate \in {NoDate} \cup {SomeDate(d) : d \in {D1, D2, D3}}
  /\ tsBperp = List([k \in 1..Len(tsDate) |-> DateBperp[tsDate[k]]])
  /\ geoDate = <<D1, D2>>

NextOffsets ==
  TimeseriesOpen \/ GetDesignMatrix \/ GetPerpBaselineTimeseries \/ Return

SpecOffsets == InitOffsets /\ [][NextOffsets]_vars

\* every operation on one ifgramStack handle
NextStack ==
  \/ Open \/ UpdateDropIfgram \/ GetDate12List \/ GetDateList
  \/ IfgramRead \/ NonzeroMask \/ TemporalAverage
  \/ GetDesignMatrix \/ GetPerpBaselineTimeseries
  \/ Return

InitHandle == InitStack(StrictPairSet({D1, D2, D3}), MaxIfgramInv) /\ InitBperp /\ InitFiles

SpecStack == InitHandle /\ [][NextStack]_vars

NextInv == GetDesignMatrix \/ Return

SpecInv == Init /\ [][NextInv]_vars

(***************************************************************************)
(* The whole program.                                                      *)
(***************************************************************************)
Next ==
  \/ Open \/ UpdateDropIfgram \/ GetDate12List \/ GetDateList
  \/ NonzeroMask \/ TemporalAverage
  \/ IfgramRead \/ TimeseriesOpen \/ TimeseriesRead \/ GeometryRead
  \/ GetDesignMatrix \/ GetPerpBaselineTimeseries
  \/ Return

Spec == Init /\ [][Next]_vars

(***************************************************************************)
(* Properties of the drop-mask filter.                                     *)
(***************************************************************************)
\* pair_key(i) of every stored pair, in storage order
PairKeys == [k \in 1..Len(date) |-> Format12(date[k][1], date[k][2])]

NotDropped(key) == key \notin dropList.keys

\* C1: after update_drop_ifgram(S), get_date12_list(dropIfgram=True) returns
\* exactly the pair keys that are not in S, in storage order, and
\* get_date12_list(dropIfgram=False) returns all pair keys in storage order.
C1_FilteredPairs ==
  (op = "get_date12_list" /\ ~dropList.isNone) =>
    IF arg.dropIfgram
    THEN ret.value = SelectSeq(PairKeys, NotDropped)
    ELSE ret.value = PairKeys

\* three stored pairs, the first one dropped, the other two returned in order
C1_Witness ==
  /\ op = "get_date12_list" /\ arg.dropIfgram /\ ~dropList.isNone
  /\ Len(date) = 3
  /\ PairKeys[1] \in dropList.keys
  /\ PairKeys[2] # PairKeys[3]
  /\ ret.value = <<PairKeys[2], PairKeys[3]>>

\* C2: update_drop_ifgram(S) recomputes keep[i] = (pair_key(i) not in S) for
\* every i whatever the mask was before, and a call with the list that was
\* persisted last leaves the persisted mask unchanged.
C2_Recompute ==
  [][(op' = "update_drop_ifgram" /\ ~arg'.date12List_to_drop.isNone) =>
       /\ Len(dropIfgram') = Len(date)
       /\ \A k \in 1..Len(date) :
            dropIfgram'[k] = (PairKeys[k] \notin arg'.date12List_to_drop.keys)
       /\ (dropList = arg'.date12List_to_drop => dropIfgram' = dropIfgram)]_vars

\* a second call with the same non-empty list, some pairs kept and some dropped
C2_Witness ==
  /\ op = "update_drop_ifgram" /\ ~arg.date12List_to_drop.isNone /\ arg.again
  /\ arg.date12List_to_drop.keys # {}
  /\ \E k \in 1..Len(date) : dropIfgram[k]
  /\ \E k \in 1..Len(date) : ~dropIfgram[k]

\* C3: update_drop_ifgram(S) with a key in S that no stored pair has fails
\* with an unknown-pair error and leaves the persisted mask unchanged.
C3_UnknownPairError ==
  [][(op' = "update_drop_ifgram" /\ ~arg'.date12List_to_drop.isNone
        /\ ~(arg'.date12List_to_drop.keys \subseteq StoredKeys)) =>
       (ret'.status = "UnknownPairError" /\ dropIfgram' = dropIfgram)]_vars

(***************************************************************************)
(* Properties of the bounded-region reads.                                 *)
(***************************************************************************)
IsIfgramRead(qualified) ==
  /\ op = "ifgramStack.read"
  /\ Split(arg.datasetName, "-")[1] \in IfgramDatasets
  /\ (Len(Split(arg.datasetName, "-")) = 2) = qualified

\* C4: a qualified read of a pair-indexed cube returns the slice at a storage
\* position whose pair key is the qualifier, for both values of dropIfgram
\* and every keep-mask, and fails when the qualifier is not a key of the
\* (filtered) pair list.
C4_QualifiedRead ==
  IsIfgramRead(TRUE) =>
    LET q == Split(arg.datasetName, "-")[2]
    IN  IF \E k \in 1..Len(date) :
             PairKeys[k] = q /\ (arg.dropIfgram => dropIfgram[k])
        THEN ret.status = "ok" => (Len(ret.pos) = 1 /\ PairKeys[ret.pos[1] + 1] = q)
        ELSE ret.status # "ok"

\* C5: an unqualified read with dropIfgram=True reads exactly the storage
\* positions whose keep flag is true, in increasing order, and with
\* dropIfgram=False the full leading axis whatever the keep-mask is.
C5_UnqualifiedRead ==
  (IsIfgramRead(FALSE) /\ ret.status = "ok") =>
    LET wanted == IF arg.dropIfgram
                  THEN {k - 1 : k \in {j \in 1..Len(date) : dropIfgram[j]}}
                  ELSE 0..(Len(date) - 1)
    IN  /\ Range(ret.pos) = wanted
        /\ \A j, k \in 1..Len(ret.pos) : j < k => ret.pos[j] < ret.pos[k]
        /\ ret.shape[1] = Cardinality(wanted)

\* the first of three pairs is dropped and the filtered read fetches the others
C5_Witness ==
  /\ IsIfgramRead(FALSE) /\ ret.status = "ok" /\ arg.dropIfgram
  /\ dropIfgram = <<FALSE, TRUE, TRUE>>
  /\ ret.pos = <<1, 2>>
  /\ ret.shape = <<2, Length, Width>>

BoxExceeds(xy) ==
  \/ xy[3] > Width \/ xy[4] > Length
  \/ \E k \in 1..4 : xy[k] < 0

\* C10: a read with a box that exceeds the stored spatial extent (x1 > width,
\* y1 > length or a negative coordinate) fails and returns no data.
C10_OutOfBounds ==
  (/\ op \in {"ifgramStack.read", "timeseries.read", "geometry.read"}
   /\ ~arg.box.isNone
   /\ BoxExceeds(arg.box.xy)) => ret.status # "ok"

\* a box that lies within the stored extent and holds at least one pixel
BoxWithin(box) ==
  box.isNone \/ (/\ 0 <= box.xy[1] /\ box.xy[1] < box.xy[3] /\ box.xy[3] <= Width
                 /\ 0 <= box.xy[2] /\ box.xy[2] < box.xy[4] /\ box.xy[4] <= Length)

\* the read selects one position of the leading axis by name
IsSingleRead ==
  \/ IsIfgramRead(TRUE)
  \/ op = "timeseries.read" /\ arg.datasetName.kind = "str"
  \/ op = "geometry.read" /\ Len(Split(arg.datasetName, "-")) = 2

\* C11: the squeeze of a read result removes only a leading axis of extent
\* one: a read of one epoch or pair returns the (rows, columns) of the box,
\* also for a box one pixel wide or high, and a read of the whole axis or of a
\* list of epochs keeps its leading axis in front of (rows, columns).
C11_SqueezeLeadingOnly ==
  (/\ op \in {"ifgramStack.read", "timeseries.read", "geometry.read"}
   /\ ret.status = "ok"
   /\ BoxWithin(arg.box)) =>
    LET b       == BoxOrFull(arg.box)
        spatial == <<b[4] - b[2], b[3] - b[1]>>
    IN  IF IsSingleRead \/ (op = "geometry.read" /\ arg.datasetName = <<"height">>)
        THEN ret.shape = spatial
        ELSE Len(ret.shape) = 3 /\ SubSeq(ret.shape, 2, 3) = spatial

\* C12: the leading-axis position read for 'base-qualifier' is one of the
\* positions that the unqualified read of 'base' fetches under the same
\* dropIfgram flag; with the filter on, its keep flag is true.
C12_RoundTrip ==
  /\ (IsIfgramRead(TRUE) /\ ret.status = "ok") =>
       /\ ret.pos[1] \in Range(IfgramLead(<<Split(arg.datasetName, "-")[1]>>, arg.dropIfgram))
       /\ arg.dropIfgram => dropIfgram[ret.pos[1] + 1]
  /\ (op = "geometry.read" /\ Len(Split(arg.datasetName, "-")) = 2 /\ ret.status = "ok") =>
       ret.pos[1] \in Range(FullAxis(Len(geoDate)))

(***************************************************************************)
(* Properties of the network inversion.                                    *)
(***************************************************************************)
RECURSIVE SumSeq(_)
SumSeq(row) == IF row = <<>> THEN 0 ELSE row[1] + SumSeq(Tail(row))

\* storage positions of the pairs that get_design_matrix uses
Kept(flag) == IF flag THEN {k \in 1..Len(date) : dropIfgram[k]} ELSE 1..Len(date)

\* the stored pair behind row i
PairOfRow(flag, i) ==
  date[CHOOSE k \in Kept(flag) : Cardinality({j \in Kept(flag) : j < k}) = i - 1]

\* E: the epochs of those pairs
Epochs(flag) == {date[k][1] : k \in Kept(flag)} \cup {date[k][2] : k \in Kept(flag)}

\* column of epoch d in chronological order of E
ColOf(flag, d) == 1 + Cardinality({e \in Epochs(flag) : Times[e] < Times[d]})

\* C6: before the reference column is removed, row i of A for pair (a,b) has
\* -1 at the column of a, +1 at the column of b and zeros elsewhere, and sums
\* to 0, for every pair list with epoch_a <= epoch_b and every keep-mask.
C6_RowsOfA ==
  (op = "get_design_matrix" /\ ret.status = "ok") =>
    \A i \in 1..Len(ret.A_full) :
      LET row == ret.A_full[i]
          a   == ColOf(arg.dropIfgram, PairOfRow(arg.dropIfgram, i)[1])
          b   == ColOf(arg.dropIfgram, PairOfRow(arg.dropIfgram, i)[2])
      IN  /\ row[a] = -1
          /\ row[b] = 1
          /\ \A k \in 1..Len(row) : k \notin {a, b} => row[k] = 0
          /\ SumSeq(row) = 0

\* C7: before the last column is removed, the sum of row i of B is the time
\* delta in days of pair i, for every pair of the (filtered) pair list.
C7_RowSumOfB ==
  (op = "get_design_matrix" /\ ret.status = "ok") =>
    /\ Len(ret.B_full) = Cardinality(Kept(arg.dropIfgram))
    /\ \A i \in 1..Len(ret.B_full) :
         SumSeq(ret.B_full[i]) = Times[PairOfRow(arg.dropIfgram, i)[2]]
                                 - Times[PairOfRow(arg.dropIfgram, i)[1]]

\* a pair that spans the three increments of 12, 12 and 36 days
C7_Witness ==
  /\ op = "get_design_matrix" /\ ret.status = "ok"
  /\ \E i \in 1..Len(ret.B_full) : ret.B_full[i] = <<12, 12, 36, 0>>

\* the reference epoch: refDate, or the earliest epoch of E
RefEpoch(flag, refDate) ==
  IF refDate.isNone
  THEN CHOOSE d \in Epochs(flag) : \A e \in Epochs(flag) : Times[d] <= Times[e]
  ELSE refDate.key

\* C8: get_design_matrix returns A and B with m rows and n-1 columns, A being
\* the full matrix without the column of the reference epoch (the earliest
\* epoch when refDate is not given) and B the full matrix without its last
\* column; it fails when refDate is given and is not an epoch of E.
C8_ReturnedMatrices ==
  op = "get_design_matrix" =>
    LET flag == arg.dropIfgram
        E    == Epochs(flag)
        n    == Cardinality(E)
        m    == Cardinality(Kept(flag))
    IN  /\ (~arg.refDate.isNone /\ arg.refDate.key \notin E) => ret.status = "ValueError"
        /\ (E # {} /\ (arg.refDate.isNone \/ arg.refDate.key \in E)) =>
             LET c == ColOf(flag, RefEpoch(flag, arg.refDate))
             IN  /\ ret.status = "ok"
                 /\ Len(ret.A) = m /\ Len(ret.B) = m
                 /\ \A i \in 1..m :
                      /\ Len(ret.A_full[i]) = n /\ Len(ret.B_full[i]) = n
                      /\ Len(ret.A[i]) = n - 1 /\ Len(ret.B[i]) = n - 1
                      /\ \A k \in 1..(n - 1) :
                           /\ ret.A[i][k] = ret.A_full[i][IF k < c THEN k ELSE k + 1]
                           /\ ret.B[i][k] = ret.B_full[i][k]

\* two pairs over four epochs, the reference is the third epoch
C8_Witness ==
  /\ op = "get_design_matrix" /\ ret.status = "ok"
  /\ arg.refDate = SomeDate(D3)
  /\ Epochs(arg.dropIfgram) = DateKeys
  /\ Len(ret.A) = 2 /\ Len(ret.A[1]) = 3

PosOfRow(flag, i) ==
  CHOOSE k \in Kept(flag) : Cardinality({j \in Kept(flag) : j < k}) = i - 1

\* per-epoch series over n epochs that are 0 at the earliest epoch
SeriesSet(n) == {p \in [1..n -> -4..4] : p[1] = 0}

\* the pair values of the (filtered) pairs are the differences of the series p
IsConsistent(flag, p) ==
  \A i \in 1..Cardinality(Kept(flag)) :
    bperp[PosOfRow(flag, i)] = p[ColOf(flag, PairOfRow(flag, i)[2])]
                               - p[ColOf(flag, PairOfRow(flag, i)[1])]

\* the three pairs over 20200101, 20200113, 20200125 with values 1, 1, 2
IsScenario(flag) ==
  /\ date = <<<<D1, D2>>, <<D2, D3>>, <<D1, D3>>>>
  /\ bperp = <<1, 1, 2>>
  /\ Kept(flag) = 1..3

\* C14: for a consistent pair network whose B has full column rank,
\* get_perp_baseline_timeseries returns a series of length n that starts with
\* 0 and equals the per-epoch series; the three-epoch scenario gives the A
\* rows [1,0], [-1,1], [0,1] and the series 0, 1, 2.
C14_PerpBaselineSeries ==
  /\ (op = "get_perp_baseline_timeseries" /\ ret.status = "ok" /\ ret.fullRank) =>
       LET flag == arg.dropIfgram
           n    == Cardinality(Epochs(flag))
       IN  /\ ret.den # 0
           /\ \A p \in SeriesSet(n) :
                IsConsistent(flag, p) =>
                  /\ Len(ret.num) = n
                  /\ ret.num[1] = 0
                  /\ \A j \in 1..n : ret.num[j] = ret.den * p[j]
  /\ (op = "get_perp_baseline_timeseries" /\ IsScenario(arg.dropIfgram)) =>
       /\ ret.status = "ok" /\ ret.fullRank
       /\ ret.num = <<0, ret.den, 2 * ret.den>>
  /\ (op = "get_design_matrix" /\ IsScenario(arg.dropIfgram)
        /\ arg.refDate \in {NoDate, SomeDate(D1)}) =>
       /\ ret.status = "ok"
       /\ ret.A = <<<<1, 0>>, <<-1, 1>>, <<0, 1>>>>

\* the scenario with the filter on: the series 0, 1, 2 is returned
C14_Witness ==
  /\ op = "get_perp_baseline_timeseries" /\ arg.dropIfgram
  /\ IsScenario(TRUE)
  /\ ret.status = "ok" /\ ret.fullRank /\ ret.den # 0
  /\ ret.num = <<0, ret.den, 2 * ret.den>>

(***************************************************************************)
(* Properties of the epoch offsets.                                        *)
(***************************************************************************)
\* the offsets do not decrease in chronological order of their dates
IsMonotone(dateList, tbase) ==
  \A j, k \in 1..Len(dateList) :
    Times[dateList[j]] <= Times[dateList[k]] => tbase[j] <= tbase[k]

\* C13: wherever epoch offsets are derived (timeseries.open, get_design_matrix,
\* get_perp_baseline_timeseries) the offset of the reference epoch is exactly 0
\* and the offsets are non-decreasing in chronological order, for every choice
\* of the reference epoch.
C13_RefOffsetZero ==
  /\ (op = "timeseries.open" /\ ret.status = "ok") =>
       /\ ret.tbase[ret.refIndex + 1] = 0
       /\ ret.pbase[ret.refIndex + 1] = 0
       /\ IsMonotone(ret.dateList, ret.tbase)
  /\ (op = "get_design_matrix" /\ ret.status = "ok") =>
       /\ ret.tbase[ColOf(arg.dropIfgram, RefEpoch(arg.dropIfgram, arg.refDate))] = 0
       /\ \A k \in 1..(Len(ret.tbase) - 1) : ret.tbase[k] <= ret.tbase[k + 1]
  /\ (op = "get_perp_baseline_timeseries" /\ ret.status = "ok") =>
       /\ ret.tbase[1] = 0
       /\ \A k \in 1..(Len(ret.tbase) - 1) : ret.tbase[k] <= ret.tbase[k + 1]

\* C13 as amended: timeseries.open counts tbase and pbase from the REF_DATE
\* epoch, which gets 0; get_design_matrix and get_perp_baseline_timeseries
\* count tbase from the earliest epoch of E whatever refDate is, so the
\* reference epoch of get_design_matrix gets its distance in days from the
\* earliest epoch, which is 0 only when it is the earliest epoch; all offsets
\* are non-decreasing in chronological order.
C13_Offsets ==
  /\ (op = "timeseries.open" /\ ret.status = "ok") =>
       /\ ret.tbase[ret.refIndex + 1] = 0
       /\ ret.pbase[ret.refIndex + 1] = 0
       /\ IsMonotone(ret.dateList, ret.tbase)
  /\ (op \in {"get_design_matrix", "get_perp_baseline_timeseries"} /\ ret.status = "ok") =>
       LET flag == arg.dropIfgram
           E    == Epochs(flag)
       IN  /\ Len(ret.tbase) = Cardinality(E)
           /\ ret.tbase[1] = 0
           /\ \A d \in E :
                ret.tbase[ColOf(flag, d)] = Times[d] - Times[RefEpoch(flag, NoDate)]
           /\ \A k \in 1..(Len(ret.tbase) - 1) : ret.tbase[k] <= ret.tbase[k + 1]

\* the reference is the last of three epochs: its offset is 24 days, not 0
C13_Witness ==
  /\ op = "get_design_matrix" /\ ret.status = "ok"
  /\ arg.refDate = SomeDate(D3)
  /\ ret.tbase = <<0, 12, 24>>

(***************************************************************************)
(* Properties of the ifgramStack handle.                                   *)
(***************************************************************************)
\* the pair keys at the storage positions whose keep flag is true
KeptKeys == List([k \in 1..CountTrue(dropIfgram) |-> PairKeys[Where(dropIfgram)[k] + 1]])

\* C15: after update_drop_ifgram(S) has returned, every filtered operation
\* uses the keep-mask that is persisted: nonzero_mask and temporal_average
\* re-derive the copy kept by open() before they use it, and the other
\* operations read /dropIfgram from the container.
C15_FreshMask ==
  (~dropList.isNone /\ op # "idle" /\ op # "update_drop_ifgram") =>
    /\ (op \in {"nonzero_mask", "temporal_average"}) =>
         /\ self_dropIfgram = [isNone |-> FALSE, value |-> dropIfgram]
         /\ (ret.status = "ok" /\ arg.dropIfgram) => ret.idx2read = Where(dropIfgram)
         /\ (ret.status = "ok" /\ op = "temporal_average") =>
              ret.divisor = CountTrue(dropIfgram)
    /\ (op = "get_date12_list" /\ arg.dropIfgram) => ret.value = KeptKeys
    /\ (op = "get_date_list" /\ arg.dropIfgram) => Range(ret.value) = Epochs(TRUE)
    /\ (IsIfgramRead(FALSE) /\ ret.status = "ok" /\ arg.dropIfgram) =>
         ret.pos = Where(dropIfgram)
    /\ (op = "get_design_matrix" /\ ret.status = "ok" /\ arg.dropIfgram) =>
         Len(ret.A_full) = CountTrue(dropIfgram)
    /\ (op = "get_perp_baseline_timeseries" /\ ret.status = "ok" /\ arg.dropIfgram) =>
         Len(ret.tbase) = Cardinality(Epochs(TRUE))

\* temporal_average is called while the copy of an earlier open() differs
\* from the mask that update_drop_ifgram has persisted
C15_Witness ==
  /\ op = "temporal_average" /\ ret.status = "ok"
  /\ arg.dropIfgram /\ arg.stale
  /\ ~dropList.isNone
  /\ dropIfgram = <<FALSE, TRUE>>
  /\ ret.idx2read = <<1>>

\* C17: the persisted keep-mask (and /bperp) always has the length of the pair
\* list; no operation changes /date or /bperp, and only update_drop_ifgram
\* changes /dropIfgram.
C17_Frame ==
  /\ [](Len(dropIfgram) = Len(date) /\ Len(bperp) = Len(date))
  /\ [][/\ date' = date
        /\ bperp' = bperp
        /\ (dropIfgram' # dropIfgram => op' = "update_drop_ifgram")]_vars

\* update_drop_ifgram has written a keep-mask that drops the first of two pairs
C17_Witness ==
  /\ op = "update_drop_ifgram"
  /\ ~arg.date12List_to_drop.isNone /\ ~arg.again
  /\ Len(date) = 2
  /\ arg.date12List_to_drop.keys = {PairKeys[1]}
  /\ dropIfgram = <<FALSE, TRUE>>

\* C18: temporal_average divides the sum by the number of pairs that it has
\* summed, for both values of dropIfgram and every keep-mask.
C18_Divisor ==
  (op = "temporal_average" /\ ret.status = "ok") =>
    ret.divisor = Len(ret.idx2read)

(***************************************************************************)
(* Properties of the entries of B.                                         *)
(***************************************************************************)
\* days between the epoch of column c and the next epoch of E
Increment(flag, c) ==
  LET d == CHOOSE e \in Epochs(flag) : ColOf(flag, e) = c
      f == CHOOSE e \in Epochs(flag) : ColOf(flag, e) = c + 1
  IN  Times[f] - Times[d]

\* C16: before column removal, row i of B for pair (a,b) has the increment
\* tbase[k+1] - tbase[k] at every epoch index k strictly between a and b and 0
\* at every other column.
C16_StrictlyBetween ==
  (op = "get_design_matrix" /\ ret.status = "ok") =>
    \A i \in 1..Len(ret.B_full) :
      LET a == ColOf(arg.dropIfgram, PairOfRow(arg.dropIfgram, i)[1])
          b == ColOf(arg.dropIfgram, PairOfRow(arg.dropIfgram, i)[2])
      IN  \A c \in 1..Len(ret.B_full[i]) :
            ret.B_full[i][c] = IF a < c /\ c < b
                               THEN Increment(arg.dropIfgram, c) ELSE 0

\* C16 as amended: the increment tbase[k+1] - tbase[k] stands at every epoch
\* index k with a <= k < b, the column of a included and the column of b
\* excluded, and 0 at every other column.
C16_EntriesOfB ==
  (op = "get_design_matrix" /\ ret.status = "ok") =>
    \A i \in 1..Len(ret.B_full) :
      LET a == ColOf(arg.dropIfgram, PairOfRow(arg.dropIfgram, i)[1])
          b == ColOf(arg.dropIfgram, PairOfRow(arg.dropIfgram, i)[2])
      IN  \A c \in 1..Len(ret.B_full[i]) :
            ret.B_full[i][c] = IF a <= c /\ c < b
                               THEN Increment(arg.dropIfgram, c) ELSE 0

\* the pair of the second and third of four epochs
C16_Witness ==
  /\ op = "get_design_matrix" /\ ret.status = "ok"
  /\ \E i \in 1..Len(ret.B_full) :
       /\ PairOfRow(arg.dropIfgram, i) = <<D2, D3>>
       /\ ret.B_full[i] = <<0, 12, 0, 0>>

\* C19: the last column of the full B is zero in every row, every row of the
\* returned B sums to the time delta in days of its pair, and a pair of two
\* equal dates gives a row of zeros.
C19_LastColumnOfB ==
  (op = "get_design_matrix" /\ ret.status = "ok") =>
    \A i \in 1..Len(ret.B_full) :
      LET pair == PairOfRow(arg.dropIfgram, i)
      IN  /\ ret.B_full[i][Len(ret.B_full[i])] = 0
          /\ SumSeq(ret.B[i]) = Times[pair[2]] - Times[pair[1]]
          /\ pair[1] = pair[2] => \A c \in 1..Len(ret.B_full[i]) : ret.B_full[i][c] = 0

\* a pair of two equal dates next to a pair that spans 24 days
C19_Witness ==
  /\ op = "get_design_matrix" /\ ret.status = "ok"
  /\ Len(ret.B) = 2
  /\ \E i, j \in 1..2 :
       /\ PairOfRow(arg.dropIfgram, i)[1] = PairOfRow(arg.dropIfgram, i)[2]
       /\ SumSeq(ret.B[i]) = 0
       /\ SumSeq(ret.B[j]) = 24

====
